---- MODULE Spec2Model ----
(***************************************************************************)
(* Model of kroftig/git_utils.py: the tree flattener (_read_tree,          *)
(* _read_tree_inner) and the latest-changing-commit resolver               *)
(* (get_latest_changing_commits_for_tree), run against a bounded git       *)
(* object store; and of the GraphQL layer that uses it: the node ids and   *)
(* the request-context cache of kroftig/schema.py and the AuthMiddleware   *)
(* of project/schema.py.                                                   *)
(*                                                                         *)
(* Strings (paths, entry names, the filter path) are sequences of          *)
(* one-character strings, so that os.path.join, str.startswith and '+'     *)
(* are computed character by character.  A Python dict is a sequence of    *)
(* [key, val] records in insertion order; assigning to an existing key     *)
(* keeps its position.                                                     *)
(***************************************************************************)
EXTENDS Integers, Sequences, FiniteSets, TLC

\* Number of commits of the largest repository drawn by Init.
NumCommits == 3
\* Largest number of parents of a commit drawn by Init.
MaxParents == 2

-----------------------------------------------------------------------------
(* Strings *)

SEP == <<"/">>

\* str.startswith
StartsWith(s, prefix) ==
    /\ Len(prefix) <= Len(s)
    /\ SubSeq(s, 1, Len(prefix)) = prefix

\* os.path.join(a, b) of posixpath, for two components
Join(a, b) ==
    IF StartsWith(b, SEP) THEN b
    ELSE IF a = <<>> \/ a[Len(a)] = "/" THEN a \o b
    ELSE a \o SEP \o b

-----------------------------------------------------------------------------
(* Python dicts, in insertion order *)

EmptyDict == <<>>

DictKeys(d) == {d[i].key : i \in 1..Len(d)}

DictHas(d, k) == \E i \in 1..Len(d) : d[i].key = k

\* d[k], for k a key of d
DictGet(d, k) == d[CHOOSE i \in 1..Len(d) : d[i].key = k].val

\* d[k] = v
DictSet(d, k, v) ==
    IF DictHas(d, k)
    THEN [i \in 1..Len(d) |-> IF d[i].key = k THEN [key |-> k, val |-> v] ELSE d[i]]
    ELSE Append(d, [key |-> k, val |-> v])

-----------------------------------------------------------------------------
(* The object store: blobs and trees by object id.  An id that a tree or a *)
(* commit refers to and that is no key of Objects is an object the store   *)
(* cannot resolve.                                                         *)

Blob == [type |-> "blob"]
Tree(entries) == [type |-> "tree", entries |-> entries]
TreeEntry(name, oid, type) == [name |-> name, oid |-> oid, type |-> type]

Objects ==
    [o \in {"B1", "B2", "B3", "TE1", "TD1", "TD2", "R1", "R2", "R3", "RD", "RS"} |->
       CASE o = "TE1" -> Tree(<<TreeEntry(<<"g">>, "B1", "blob")>>)
         [] o = "TD1" -> Tree(<<TreeEntry(<<"e">>, "TE1", "tree"),
                                TreeEntry(<<"f">>, "B1", "blob")>>)
         [] o = "TD2" -> Tree(<<TreeEntry(<<"e">>, "TX", "tree"),
                                TreeEntry(<<"f">>, "B1", "blob")>>)
         [] o = "R1" -> Tree(<<TreeEntry(<<"d">>, "TD1", "tree"),
                               TreeEntry(<<"d", "d">>, "B2", "blob"),
                               TreeEntry(<<"f">>, "B1", "blob")>>)
         [] o = "R2" -> Tree(<<TreeEntry(<<"d">>, "TD2", "tree"),
                               TreeEntry(<<"d", "d">>, "B3", "blob"),
                               TreeEntry(<<"f">>, "B1", "blob")>>)
         [] o = "R3" -> Tree(<<TreeEntry(<<"d">>, "B3", "blob"),
                               TreeEntry(<<"f">>, "B1", "blob")>>)
         [] o = "RD" -> Tree(<<TreeEntry(<<"f">>, "B1", "blob"),
                               TreeEntry(<<"f">>, "B2", "blob")>>)
         [] o = "RS" -> Tree(<<TreeEntry(<<"d">>, "RS", "tree"),
                               TreeEntry(<<"f">>, "B1", "blob")>>)
         [] OTHER -> Blob]

\* The ids a commit's tree is drawn from, besides "RX", a tree the store
\* lacks.  "TX", the entry 'e' of TD2, is a subtree the store lacks.
RootTrees == {"R1", "R2", "R3"}

\* Malformed trees: "RD" has two entries named 'f', and the entry 'd' of "RS"
\* is "RS" itself.
MalformedTrees == {"RD", "RS"}

\* The filter paths drawn by Init: '', 'd', 'd/e', 'd/' and 'x'.
FilterPaths == {<<>>, <<"d">>, <<"d", "/", "e">>, <<"d", "/">>, <<"x">>}

None == [type |-> "None"]

\* repo.get(oid) giving an empty tree for an object the store lacks.
RepoGetOrEmpty(oid) == IF oid \in DOMAIN Objects THEN Objects[oid] ELSE Tree(<< >>)

\* repo.get(oid) of pygit2: the object, or None when the store lacks it
RepoGet(oid) == IF oid \in DOMAIN Objects THEN Objects[oid] ELSE None

-----------------------------------------------------------------------------
(* The tree flattener.  A call returns [err, dict, got]: err is TRUE when   *)
(* the call raised (iterating over None, or a commit whose tree is         *)
(* missing); got records, as [path, oid], the subtrees line 35 asked the   *)
(* store for.                                                              *)

\* Line 33: the entry is the filter path or one of its ancestor directories.
OnFilterPath(filter_path, path) ==
    /\ filter_path # <<>>
    /\ (filter_path = path \/ StartsWith(filter_path, path \o SEP))

\* Line 37 with the '/' left out of the prefix test.
InsideFilterNoSep(filter_path, path) ==
    filter_path = <<>> \/ StartsWith(path, filter_path)

\* Line 37: no filter is set, or the entry is strictly inside the filter path.
InsideFilter(filter_path, path) ==
    filter_path = <<>> \/ StartsWith(path, filter_path \o SEP)

\* Line 34 with the test of the entry's type left out.
IsTreeUnchecked(entry) == TRUE

\* Line 34: the entry is a tree.
IsTree(entry) == entry.type = "tree"

RECURSIVE ReadTreeInnerDescending(_, _, _, _, _)
\* _read_tree_inner descending also into the trees it records.
ReadTreeInnerDescending(gittree, i, filter_path, tree_dict, path_prefix) ==
    IF gittree.type # "tree" THEN [err |-> TRUE, dict |-> tree_dict, got |-> {}]
    ELSE IF i > Len(gittree.entries)
    THEN [err |-> FALSE, dict |-> tree_dict, got |-> {}]
    ELSE
      LET entry == gittree.entries[i]
          path == Join(path_prefix, entry.name)
          recorded == IF OnFilterPath(filter_path, path) THEN tree_dict
                      ELSE DictSet(tree_dict, path, [oid |-> entry.oid])
      IN  IF OnFilterPath(filter_path, path) \/ InsideFilter(filter_path, path)
          THEN
            IF IsTree(entry)
            THEN LET asked == {[path |-> path, oid |-> entry.oid]}
                     sub == ReadTreeInnerDescending(RepoGet(entry.oid), 1, filter_path,
                                                    recorded, path)
                     rest == ReadTreeInnerDescending(gittree, i + 1, filter_path,
                                                     sub.dict, path_prefix)
                 IN  IF sub.err THEN [sub EXCEPT !.got = @ \cup asked]
                     ELSE [rest EXCEPT !.got = @ \cup sub.got \cup asked]
            ELSE ReadTreeInnerDescending(gittree, i + 1, filter_path, recorded,
                                         path_prefix)
          ELSE ReadTreeInnerDescending(gittree, i + 1, filter_path, tree_dict,
                                       path_prefix)

RECURSIVE _read_tree_inner(_, _, _, _, _)
\* The loop of _read_tree_inner from entry number i of gittree on.
_read_tree_inner(gittree, i, filter_path, tree_dict, path_prefix) ==
    \* 'for entry in gittree' raises TypeError when repo.get returned None
    IF gittree.type # "tree" THEN [err |-> TRUE, dict |-> tree_dict, got |-> {}]
    ELSE IF i > Len(gittree.entries)
    THEN [err |-> FALSE, dict |-> tree_dict, got |-> {}]
    ELSE
      LET entry == gittree.entries[i]
          path == Join(path_prefix, entry.name)
      IN  IF OnFilterPath(filter_path, path)
          THEN
            IF IsTree(entry)
            THEN LET subtree == RepoGet(entry.oid)
                     asked == {[path |-> path, oid |-> entry.oid]}
                     sub == _read_tree_inner(subtree, 1, filter_path, tree_dict, path)
                     rest == _read_tree_inner(gittree, i + 1, filter_path, sub.dict,
                                              path_prefix)
                 IN  IF sub.err THEN [sub EXCEPT !.got = @ \cup asked]
                     ELSE [rest EXCEPT !.got = @ \cup sub.got \cup asked]
            ELSE _read_tree_inner(gittree, i + 1, filter_path, tree_dict, path_prefix)
          ELSE IF InsideFilter(filter_path, path)
          THEN _read_tree_inner(gittree, i + 1, filter_path,
                                DictSet(tree_dict, path, [oid |-> entry.oid]),
                                path_prefix)
          ELSE _read_tree_inner(gittree, i + 1, filter_path, tree_dict, path_prefix)

\* _read_tree(repo, commit, filter_path), commit given by the id of its tree;
\* commit.tree raises KeyError when the store lacks the tree, and RepoGet's
\* None then makes the call raise all the same.
_read_tree(tree_oid, filter_path) ==
    _read_tree_inner(RepoGet(tree_oid), 1, filter_path, EmptyDict, <<>>)

-----------------------------------------------------------------------------
(* The resolver's state *)

VARIABLES
    repo,            \* the store's commits: [parents, tree, lost]
    root,            \* the start commit
    filter_path,     \* the filter path
    commits,         \* commits[c] = [tree, held], for the commits seen so far
    pending_commits, \* the set of commits still to process
    resolved,        \* the list of (path, path_dict) pairs resolved so far
    result,          \* the returned dict
    reads,           \* reads[c]: the number of _read_tree calls for commit c
    pc,              \* "start", "loop", "done" (returned) or "error" (raised);
                     \* "idle" when no call is running
    registry,        \* the names of the RepoModel rows
    user,            \* info.context.user, carried by the session
    kroftig,         \* info.context.kroftig: [set, items]
    request,         \* the GraphQL operation handled last
    response         \* what it returned or raised

\* The variables of the GraphQL layer.
webvars == <<registry, user, kroftig, request, response>>

vars == <<repo, root, filter_path, commits, pending_commits, resolved, result,
          reads, pc, registry, user, kroftig, request, response>>

\* AnonymousUser: the user of a session nobody is logged in to.
AnonymousUser == "AnonymousUser"

\* No GraphQL operation is modelled: the resolver is called directly.
NoWeb ==
    /\ registry = {}
    /\ user = AnonymousUser
    /\ kroftig = [set |-> FALSE, items |-> EmptyDict]
    /\ request = [op |-> "none"]
    /\ response = [kind |-> "none"]

CommitIds == DOMAIN repo.parents

\* The sequences of at most MaxParents distinct commits older than c.
ParentSeqs(c) ==
    {s \in UNION {[1..k -> 1..(c - 1)] : k \in 0..MaxParents} :
        \A i, j \in 1..Len(s) : i # j => s[i] # s[j]}

RECURSIVE AncestorsOf(_, _, _)
\* The commits reached from the set cs over at most k parent links.
AncestorsOf(parents, cs, k) ==
    IF k = 0 THEN cs
    ELSE AncestorsOf(parents,
                     cs \cup UNION {{parents[c][i] : i \in 1..Len(parents[c])} : c \in cs},
                     k - 1)

RECURSIVE ParentLists(_)
\* The lists of parent sequences of the commits 1..n.
ParentLists(n) ==
    IF n = 0 THEN {<< >>}
    ELSE {Append(g, s) : g \in ParentLists(n - 1), s \in ParentSeqs(n)}

\* The commit graphs of n commits, each an ancestor of commit n or n itself.
CommitGraphs(n) == {g \in ParentLists(n) : AncestorsOf(g, {n}, n) = 1..n}

\* The commits the store lacks: none, or the oldest one (never the start
\* commit, which the caller passes as an object).
LostCommits(n) == IF n = 1 THEN {{}} ELSE {{}, {1}}

\* The trees of the commits 1..n: every tree is in the store, except that
\* the store may lack the tree of the oldest commit.  A commit the store
\* lacks is never read, and one tree stands for all it might have.
CommitTrees(n, lost) ==
    {t \in [1..n -> RootTrees \cup {"RX"}] :
        /\ \A c \in 2..n : t[c] # "RX"
        /\ \A c \in lost : t[c] = "RX"}

Init ==
    \E n \in 1..NumCommits :
      \E g \in CommitGraphs(n), lost \in LostCommits(n), f \in FilterPaths :
        \E t \in CommitTrees(n, lost) :
        /\ repo = [parents |-> g, tree |-> t, lost |-> lost]
        /\ root = n
        /\ filter_path = f
        /\ commits = << >>
        /\ pending_commits = {}
        /\ resolved = << >>
        /\ result = EmptyDict
        /\ reads = [c \in 1..n |-> 0]
        /\ pc = "start"
        /\ NoWeb

\* The calls on a store with malformed trees: every commit is in the store,
\* and each commit's tree is the well-formed "R1" or a malformed tree.
InitMalformed ==
    \E n \in 1..NumCommits :
      \E g \in CommitGraphs(n), f \in {<<>>, <<"d">>} :
        \E t \in [1..n -> {"R1"} \cup MalformedTrees] :
        /\ repo = [parents |-> g, tree |-> t, lost |-> {}]
        /\ root = n
        /\ filter_path = f
        /\ commits = << >>
        /\ pending_commits = {}
        /\ resolved = << >>
        /\ result = EmptyDict
        /\ reads = [c \in 1..n |-> 0]
        /\ pc = "start"
        /\ NoWeb

-----------------------------------------------------------------------------
(* get_latest_changing_commits_for_tree *)

\* A statement's result, computed once, in the statements Op that follow it.
Bind(v, Op(_)) == CHOOSE r \in {Op(x) : x \in {v}} : TRUE

\* The loop's variables, as one record.
Locals == [commits |-> commits, pending_commits |-> pending_commits,
           resolved |-> resolved, reads |-> reads, err |-> FALSE]

\* Lines 64-68: flatten the start commit's tree and hold every path at it.
Setup(s) ==
    LET rt == _read_tree(repo.tree[root], filter_path)
        tree == [i \in 1..Len(rt.dict) |->
                   [key |-> rt.dict[i].key,
                    val |-> [oid |-> rt.dict[i].val.oid, latest |-> root]]]
    IN  IF rt.err
        THEN [s EXCEPT !.reads[root] = @ + 1, !.err = TRUE]
        ELSE [s EXCEPT !.reads[root] = @ + 1,
                       !.commits = (root :> [tree |-> tree, held |-> tree]),
                       !.pending_commits = {root}]

\* Lines 81-82 without the test of line 80: the parent's tree is read and
\* stored at every request.
ParentTreeUncached(s, parent_commit) ==
    LET rt == _read_tree(repo.tree[parent_commit], filter_path)
    IN  IF rt.err
        THEN [s EXCEPT !.reads[parent_commit] = @ + 1, !.err = TRUE]
        ELSE [s EXCEPT !.reads[parent_commit] = @ + 1,
                       !.commits = (parent_commit :>
                           [tree |-> rt.dict, held |-> EmptyDict]) @@ @]

\* Lines 80-84: the parent's flat tree, from the cache or read and cached.
ParentTree(s, parent_commit) ==
    IF parent_commit \notin DOMAIN s.commits
    THEN LET rt == _read_tree(repo.tree[parent_commit], filter_path)
         IN  IF rt.err
             THEN [s EXCEPT !.reads[parent_commit] = @ + 1, !.err = TRUE]
             ELSE [s EXCEPT !.reads[parent_commit] = @ + 1,
                            !.commits = (parent_commit :>
                                [tree |-> rt.dict, held |-> EmptyDict]) @@ @]
    ELSE s

\* Line 87 without the comparison of the oids.
MatchesPathOnly(parent_tree, path, path_dict) == DictHas(parent_tree, path)

\* Line 87: the parent has the path with the same oid.
Matches(parent_tree, path, path_dict) ==
    /\ DictHas(parent_tree, path)
    /\ DictGet(parent_tree, path).oid = path_dict.oid

\* Advance with line 90 replacing the parent's held dict instead of adding to it.
AdvanceOverwriting(s, parent_commit, path, path_dict) ==
    [s EXCEPT !.commits[parent_commit].held =
                  <<[key |-> path, val |-> [path_dict EXCEPT !.latest = parent_commit]]>>,
              !.pending_commits = @ \cup {parent_commit}]

\* Advance without line 89: the entry keeps the latest commit it came with.
AdvanceKeepingLatest(s, parent_commit, path, path_dict) ==
    [s EXCEPT !.commits[parent_commit].held = DictSet(@, path, path_dict),
              !.pending_commits = @ \cup {parent_commit}]

\* Advance without line 91: the parent is not added to pending_commits.
AdvanceWithoutPending(s, parent_commit, path, path_dict) ==
    [s EXCEPT !.commits[parent_commit].held =
                  DictSet(@, path, [path_dict EXCEPT !.latest = parent_commit])]

\* Lines 88-91: advance the entry into the parent.
Advance(s, parent_commit, path, path_dict) ==
    [s EXCEPT !.commits[parent_commit].held =
                  DictSet(@, path, [path_dict EXCEPT !.latest = parent_commit]),
              !.pending_commits = @ \cup {parent_commit}]

RECURSIVE ScanParentsNoBreak(_, _, _, _, _, _)
\* ScanParents without the break of line 92: every matching parent is
\* advanced into, and 'found' decides whether the path is resolved.
ScanParentsNoBreak(s, parents, j, path, path_dict, found) ==
    IF j > Len(parents)
    THEN IF found THEN s
         ELSE [s EXCEPT !.resolved = Append(@, [key |-> path, val |-> path_dict])]
    ELSE LET parent_commit == parents[j]
             s1 == ParentTree(s, parent_commit)
         IN  IF s1.err THEN s1
             ELSE IF Matches(s1.commits[parent_commit].tree, path, path_dict)
             THEN ScanParentsNoBreak(Advance(s1, parent_commit, path, path_dict),
                                     parents, j + 1, path, path_dict, TRUE)
             ELSE ScanParentsNoBreak(s1, parents, j + 1, path, path_dict, found)

ScanParentsWithoutBreak(s, parents, j, path, path_dict) ==
    ScanParentsNoBreak(s, parents, j, path, path_dict, FALSE)

\* ScanParents looking at one parent only: the path is resolved as soon as
\* that parent does not match.
ScanOneParent(s, parents, j, path, path_dict) ==
    IF j > Len(parents)
    THEN [s EXCEPT !.resolved = Append(@, [key |-> path, val |-> path_dict])]
    ELSE LET parent_commit == parents[j]
             s1 == ParentTree(s, parent_commit)
         IN  IF s1.err THEN s1
             ELSE IF Matches(s1.commits[parent_commit].tree, path, path_dict)
             THEN Advance(s1, parent_commit, path, path_dict)
             ELSE [s1 EXCEPT !.resolved = Append(@, [key |-> path, val |-> path_dict])]

RECURSIVE ScanParents(_, _, _, _, _)
\* Lines 79-94 for one path, from parent number j on.
ScanParents(s, parents, j, path, path_dict) ==
    IF j > Len(parents)
    THEN [s EXCEPT !.resolved = Append(@, [key |-> path, val |-> path_dict])]
    ELSE LET parent_commit == parents[j]
         IN  Bind(ParentTree(s, parent_commit), LAMBDA s1 :
                IF s1.err THEN s1
                ELSE IF Matches(s1.commits[parent_commit].tree, path, path_dict)
                THEN Advance(s1, parent_commit, path, path_dict)
                ELSE ScanParents(s1, parents, j + 1, path, path_dict))

RECURSIVE WorkingLoop(_, _, _, _)
\* Lines 75-94 from item number k of working on.  commit.parents looks up
\* every parent and raises KeyError when the store lacks one.
WorkingLoop(s, commit, working, k) ==
    IF k > Len(working) THEN s
    ELSE IF \E i \in 1..Len(repo.parents[commit]) :
                repo.parents[commit][i] \in repo.lost
    THEN [s EXCEPT !.err = TRUE]
    ELSE Bind(ScanParents(s, repo.parents[commit], 1,
                          working[k].key, working[k].val), LAMBDA s1 :
                IF s1.err THEN s1 ELSE WorkingLoop(s1, commit, working, k + 1))

\* Iteration with line 71 reading a pending commit without removing it.
IterationWithoutPop(s, commit) ==
    LET working == s.commits[commit].held
        s0 == [s EXCEPT !.commits[commit].held = EmptyDict]
    IN  WorkingLoop(s0, commit, working, 1)

\* Lines 71-94: one iteration of the while loop, for the popped commit.
Iteration(s, commit) ==
    LET working == s.commits[commit].held
        s0 == [s EXCEPT !.pending_commits = @ \ {commit},
                        !.commits[commit].held = EmptyDict]
    IN  WorkingLoop(s0, commit, working, 1)

RECURSIVE DictOf(_, _)
\* dict(resolved), from item number k on.
DictOf(list, k) ==
    IF k > Len(list) THEN EmptyDict
    ELSE LET rest == DictOf(list, k + 1)
         IN  IF DictHas(rest, list[k].key)
             THEN <<[key |-> list[k].key, val |-> DictGet(rest, list[k].key)]>>
                  \o SelectSeq(rest, LAMBDA e : e.key # list[k].key)
             ELSE <<list[k]>> \o rest

Store(s, next_pc) ==
    /\ commits' = s.commits
    /\ pending_commits' = s.pending_commits
    /\ resolved' = s.resolved
    /\ reads' = s.reads
    /\ pc' = IF s.err THEN "error" ELSE next_pc

Start ==
    /\ pc = "start"
    /\ \E s \in {Setup(Locals)} : Store(s, "loop")
    /\ UNCHANGED <<repo, root, filter_path, result>>
    /\ UNCHANGED webvars

ProcessCommit ==
    /\ pc = "loop"
    /\ \E commit \in pending_commits :
         \E s \in {Iteration(Locals, commit)} : Store(s, "loop")
    /\ UNCHANGED <<repo, root, filter_path, result>>
    /\ UNCHANGED webvars

Return ==
    /\ pc = "loop"
    /\ pending_commits = {}
    /\ result' = DictOf(resolved, 1)
    /\ pc' = "done"
    /\ UNCHANGED <<repo, root, filter_path, commits, pending_commits, resolved, reads>>
    /\ UNCHANGED webvars

Next == Start \/ ProcessCommit \/ Return

Spec == Init /\ [][Next]_vars

\* The call run to its end: a step that the sequential code can take is
\* taken.
FairSpec == Spec /\ WF_vars(Next)

\* The same calls, on a store with malformed trees.
SpecMalformed == InitMalformed /\ [][Next]_vars

-----------------------------------------------------------------------------
(* Definitions the properties are stated with, computed from the store     *)
(* alone.                                                                  *)

\* The flat tree of commit c under the run's filter path.
FlatOf(c) == _read_tree(repo.tree[c], filter_path)

\* Commit c's flat tree has the path with content id oid.
Has(c, path, oid) ==
    LET rt == FlatOf(c)
    IN  /\ ~rt.err
        /\ DictHas(rt.dict, path)
        /\ DictGet(rt.dict, path).oid = oid

ParentSet(c) == {repo.parents[c][i] : i \in 1..Len(repo.parents[c])}

\* A dict of path -> [oid, latest] as a set of triples.
AsMap(d) == {<<d[i].key, d[i].val.oid, d[i].val.latest>> : i \in 1..Len(d)}

\* The number of items of a list with the given key.
Occurrences(list, k) == Cardinality({i \in 1..Len(list) : list[i].key = k})

-----------------------------------------------------------------------------
\* C1 (completeness): when the call has returned, the keys of the result are
\* exactly the keys of the start commit's flat tree, and each of them was
\* appended to the resolved list exactly once.
C1_Completeness ==
    pc = "done" =>
        /\ DictKeys(result) = DictKeys(FlatOf(root).dict)
        /\ \A k \in DictKeys(FlatOf(root).dict) : Occurrences(resolved, k) = 1
        /\ Len(resolved) = Len(FlatOf(root).dict)

\* A returned result of three paths, two of which advanced to the same parent.
C1_Witness ==
    /\ pc = "done"
    /\ Len(result) = 3
    /\ \E c \in CommitIds \ {root} :
         Cardinality({i \in 1..Len(result) : result[i].val.latest = c}) >= 2

-----------------------------------------------------------------------------
\* The history is one single-parent chain n <- n-1 <- ... <- 1.
IsLinear == \A c \in CommitIds : repo.parents[c] = IF c = 1 THEN <<>> ELSE <<c - 1>>

\* C2 (linear history): on a single-parent chain, a path of the start commit
\* with content id oid is reported with that oid and with the commit Ck such
\* that every commit from Ck to the start has the path with oid and Ck is the
\* root or its parent has not.
C2_LinearHistory ==
    (pc = "done" /\ IsLinear) =>
        \A i \in 1..Len(FlatOf(root).dict) :
            LET path == FlatOf(root).dict[i].key
                oid == FlatOf(root).dict[i].val.oid
            IN  \E k \in 1..root :
                  /\ \A c \in k..root : Has(c, path, oid)
                  /\ k = 1 \/ ~Has(k - 1, path, oid)
                  /\ <<path, oid, k>> \in AsMap(result)

\* The scenario A (root, f = B1) <- B (adds dd = B3) <- C (head, dd = B2).
C2_Witness ==
    /\ pc = "done"
    /\ IsLinear
    /\ root = 3
    /\ filter_path = <<>>
    /\ repo.tree = <<"R3", "R2", "R1">>
    /\ {<<"f">>} \X {"B1"} \X {1} \subseteq AsMap(result)
    /\ {<<"d", "d">>} \X {"B2"} \X {3} \subseteq AsMap(result)

-----------------------------------------------------------------------------
\* The parents of c, in declared order, that have the path with oid.
MatchingParents(c, path, oid) ==
    SelectSeq(repo.parents[c], LAMBDA p : Has(p, path, oid))

\* The commit popped by a step of the loop.
Popped == pending_commits \ pending_commits'

\* C3 (first-parent bias): a step of the loop that processes commit c moves
\* every path held at c that has matching parents into the held dict of the
\* first matching parent only, with latest set to that parent; and a
\* returned latest commit of a path that the start commit's parents match is
\* the first matching parent or one of its ancestors.
C3_FirstParentBias ==
    [][(pc = "loop" /\ pc' # "error") =>
        /\ \A c \in Popped : \A i \in 1..Len(commits[c].held) :
             LET path == commits[c].held[i].key
                 oid == commits[c].held[i].val.oid
                 mp == MatchingParents(c, path, oid)
             IN  mp # <<>> =>
                   /\ DictHas(commits'[mp[1]].held, path)
                   /\ DictGet(commits'[mp[1]].held, path) = [oid |-> oid, latest |-> mp[1]]
                   /\ \A q \in DOMAIN commits' \ {mp[1]} :
                        ~DictHas(commits'[q].held, path)
                   /\ Occurrences(resolved', path) = 0
        /\ pc' = "done" =>
             \A i \in 1..Len(result') :
                LET mp == MatchingParents(root, result'[i].key, result'[i].val.oid)
                IN  mp # <<>> =>
                      result'[i].val.latest \in AncestorsOf(repo.parents, {mp[1]}, root)
      ]_vars

\* A merge whose two parents both match a path: the result names the first
\* parent, a commit without parents, although the second parent is older.
C3_Witness ==
    /\ pc = "done"
    /\ Len(repo.parents[root]) = 2
    /\ \E i \in 1..Len(result) :
         /\ Len(MatchingParents(root, result[i].key, result[i].val.oid)) = 2
         /\ result[i].val.latest = repo.parents[root][1]
         /\ repo.parents[root][2] < repo.parents[root][1]

-----------------------------------------------------------------------------
\* The smallest commit of a non-empty set.
MinOf(cs) == CHOOSE c \in cs : \A d \in cs : c <= d

RECURSIVE RunInOrder(_)
\* The loop run to its end from the locals s, popping the smallest pending
\* commit each time.
RunInOrder(s) ==
    IF s.err \/ s.pending_commits = {} THEN s
    ELSE RunInOrder(Iteration(s, MinOf(s.pending_commits)))

\* The whole call, the loop popping commits in increasing order.
OrderedCall ==
    RunInOrder(Setup([commits |-> << >>, pending_commits |-> {}, resolved |-> << >>,
                      reads |-> [c \in CommitIds |-> 0], err |-> FALSE]))

\* C4 (confluence): whatever order the commits were popped in, the call ends
\* as the call that pops them in increasing order ends: with the same
\* mapping when it returns, and raising when that one raises.
C4_Confluence ==
    /\ pc = "done" =>
         /\ ~OrderedCall.err
         /\ AsMap(result) = AsMap(DictOf(OrderedCall.resolved, 1))
    /\ pc = "error" => OrderedCall.err

\* A returned call that popped the commits in another order: its result
\* dict lists the paths in another order than the increasing-order call's.
C4_Witness ==
    /\ pc = "done"
    /\ Len(result) >= 2
    /\ result # DictOf(OrderedCall.resolved, 1)

-----------------------------------------------------------------------------
\* The commits reached from c over parent links, c included.
AncestorsOrSelf(c) == AncestorsOf(repo.parents, {c}, Cardinality(CommitIds))

\* The proper ancestors of c.
ProperAncestors(c) == AncestorsOf(repo.parents, ParentSet(c), Cardinality(CommitIds))

\* C5 as claimed: the reported commit is an earliest ancestor with the
\* start commit's content id for the path, that is, it has that content id
\* and none of its proper ancestors has.
C5_EarliestIdentical ==
    pc = "done" =>
        \A i \in 1..Len(result) :
            LET path == result[i].key
                oid == result[i].val.oid
                latest == result[i].val.latest
            IN  /\ Has(latest, path, oid)
                /\ \A a \in ProperAncestors(latest) : ~Has(a, path, oid)

\* The commits that have the path with content id oid.
Having(path, oid) == {c \in CommitIds : Has(c, path, oid)}

RECURSIVE ChainWithin(_, _)
\* The commits reached from the set cs over parent links that stay within
\* the set having.
ChainWithin(cs, having) ==
    LET more == cs \cup (UNION {ParentSet(c) : c \in cs} \cap having)
    IN  IF more = cs THEN cs ELSE ChainWithin(more, having)

\* C5, amended: the reported commit has the start commit's content id for
\* the path, is joined to the start commit by a chain of parent links all of
\* whose commits have that content id, and has no parent that has it.
C5_EarliestUnbroken ==
    pc = "done" =>
        LET flat == FlatOf(root).dict
        IN  /\ Len(result) = Len(flat)
            /\ \A i \in 1..Len(result) :
                LET path == result[i].key
                    oid == DictGet(flat, path).oid
                    latest == result[i].val.latest
                    having == Having(path, oid)
                IN  /\ result[i].val.oid = oid
                    /\ latest \in ChainWithin({root}, having)
                    /\ ParentSet(latest) \cap having = {}

\* A path whose content was changed and changed back: the start commit is
\* reported although an older ancestor has the same content id.
C5_Witness ==
    /\ pc = "done"
    /\ \E i \in 1..Len(result) :
         /\ result[i].val.latest = root
         /\ \E a \in ProperAncestors(root) : Has(a, result[i].key, result[i].val.oid)

-----------------------------------------------------------------------------
\* The commits between a and the start commit, both included.
Between(a) == {c \in AncestorsOrSelf(root) : a \in AncestorsOrSelf(c)}

\* All commits between a and the start commit have the path with oid.
SameBlobBetween(a, path, oid) == \A c \in Between(a) : Has(c, path, oid)

\* C6 (docstring): the reported commit is the oldest ancestor of the start
\* commit such that all commits between it and the start commit, both
\* included, have the same blob for the path.
C6_OldestSameBlob ==
    pc = "done" =>
        \A i \in 1..Len(result) :
            LET path == result[i].key
                oid == result[i].val.oid
                latest == result[i].val.latest
            IN  /\ SameBlobBetween(latest, path, oid)
                /\ \A a \in ProperAncestors(latest) : ~SameBlobBetween(a, path, oid)

-----------------------------------------------------------------------------
(* The entries of a tree, by a walk of the whole tree *)

RECURSIVE AllEntries(_, _)
\* Every entry below the tree tree_oid, at any depth, as [path, oid, type],
\* the paths joined from path_prefix on.
AllEntries(tree_oid, path_prefix) ==
    IF tree_oid \notin DOMAIN Objects THEN {}
    ELSE IF Objects[tree_oid].type # "tree" THEN {}
    ELSE LET entries == Objects[tree_oid].entries
             PathOf(name) == IF path_prefix = <<>> THEN name
                             ELSE path_prefix \o <<"/">> \o name
         IN  UNION {{[path |-> PathOf(entries[i].name), oid |-> entries[i].oid,
                      type |-> entries[i].type]}
                    \cup (IF entries[i].type = "tree"
                          THEN AllEntries(entries[i].oid, PathOf(entries[i].name))
                          ELSE {})
                    : i \in 1..Len(entries)}

\* The entries of commit c's tree.
EntriesOf(c) == AllEntries(repo.tree[c], <<>>)

\* The path continues dir by a '/' (every path does when dir is ''): it lies
\* below the directory dir, or is dir with a trailing '/'.
Under(path, dir) ==
    \/ dir = <<>>
    \/ /\ Len(path) >= Len(dir) + 1
       /\ \A i \in 1..Len(dir) : path[i] = dir[i]
       /\ path[Len(dir) + 1] = "/"

\* The directory part of a path: '' for a path without '/'.
DirName(path) ==
    LET slashes == {i \in 1..Len(path) : path[i] = "/"}
    IN  IF slashes = {} THEN <<>>
        ELSE SubSeq(path, 1, (CHOOSE i \in slashes : \A j \in slashes : j <= i) - 1)

\* The flat tree the call cached for commit c, as a set of [path, oid].
Cached(c) ==
    {[path |-> commits[c].tree[i].key, oid |-> commits[c].tree[i].val.oid] :
        i \in 1..Len(commits[c].tree)}

-----------------------------------------------------------------------------
\* C7 as claimed (full flattening): the flat tree cached for a commit has
\* one key for every entry of the commit's tree, at any depth, that lies
\* inside the filter scope.
C7_FullFlattening ==
    \A c \in DOMAIN commits :
        Cached(c) = {[path |-> e.path, oid |-> e.oid] :
                        e \in {x \in EntriesOf(c) : Under(x.path, filter_path)}}

\* C7, amended: the flat tree cached for a commit has one key for every
\* entry directly in the directory named by the filter path (the top-level
\* entries when there is no filter), Tree entries included with their own
\* id, and no key for entries nested more deeply.
C7_DirectChildren ==
    \A c \in DOMAIN commits :
        Cached(c) = {[path |-> e.path, oid |-> e.oid] :
                        e \in {x \in EntriesOf(c) : DirName(x.path) = filter_path}}

\* A cached flat tree under filter 'd' that records the Tree entry 'd/e' and
\* has no key for the nested 'd/e/g'.
C7_Witness ==
    \E c \in DOMAIN commits :
        /\ filter_path = <<"d">>
        /\ \E e \in Cached(c) : e.path = <<"d", "/", "e">>
        /\ \E e \in EntriesOf(c) : e.path = <<"d", "/", "e", "/", "g">>
        /\ \A e \in Cached(c) : e.path # <<"d", "/", "e", "/", "g">>

-----------------------------------------------------------------------------
\* The path names the filter path or a directory above it.
AtOrAbove(path) == path = filter_path \/ Under(filter_path, path)

\* C8 (filter scoping): with a non-empty filter path, every key of a cached
\* flat tree is the full path of an entry of the commit's tree, carries that
\* entry's id, lies below the filter path and is neither the filter path nor
\* a directory above it; and the only subtrees the flattener asks the store
\* for are Tree entries at the filter path or above it.
C8_FilterScoping ==
    filter_path # <<>> =>
        \A c \in DOMAIN commits :
            /\ \A k \in Cached(c) :
                 /\ \E e \in EntriesOf(c) : e.path = k.path /\ e.oid = k.oid
                 /\ Under(k.path, filter_path)
                 /\ ~AtOrAbove(k.path)
            /\ \A g \in FlatOf(c).got :
                 /\ AtOrAbove(g.path)
                 /\ \E e \in EntriesOf(c) :
                      e.path = g.path /\ e.oid = g.oid /\ e.type = "tree"

\* Under filter 'd' a tree with the entries 'd', 'dd' and 'f' is cached with
\* the keys 'd/e' and 'd/f' only, and 'd' alone was descended into.
C8_Witness ==
    \E c \in DOMAIN commits :
        /\ filter_path = <<"d">>
        /\ repo.tree[c] = "R1"
        /\ {e.path : e \in Cached(c)} = {<<"d", "/", "e">>, <<"d", "/", "f">>}
        /\ {g.path : g \in FlatOf(c).got} = {<<"d">>}

-----------------------------------------------------------------------------
\* The filter path is set and names no Tree entry of commit c's tree.
NamesNoTree(c) ==
    /\ filter_path # <<>>
    /\ ~\E e \in EntriesOf(c) : e.path = filter_path /\ e.type = "tree"

\* The store lacks commit c's tree, or a subtree of it at or above the
\* filter path.
MissingOnPath(c) ==
    \/ repo.tree[c] \notin DOMAIN Objects
    \/ \E e \in EntriesOf(c) :
         e.type = "tree" /\ AtOrAbove(e.path) /\ e.oid \notin DOMAIN Objects

\* C9 (filter path naming no tree): when the filter path names no tree of the
\* start commit, whose tree the store has, the initial entry set is empty
\* and the call returns the empty mapping and never raises; and a parent
\* whose tree lacks the filter path is cached with an empty flat tree and is
\* never advanced into.
C9_NoTreeNoError ==
    /\ (pc # "start" /\ NamesNoTree(root) /\ ~MissingOnPath(root)) =>
         /\ pc # "error"
         /\ commits[root].tree = EmptyDict
         /\ resolved = << >>
         /\ \A c \in DOMAIN commits : commits[c].held = EmptyDict
         /\ pc = "done" => result = EmptyDict
    /\ \A c \in DOMAIN commits \ {root} :
         NamesNoTree(c) =>
            /\ commits[c].tree = EmptyDict
            /\ commits[c].held = EmptyDict
            /\ c \notin pending_commits

\* The call returned the empty mapping for the malformed filter path 'd/'
\* although the start commit has the directory 'd'.
C9_Witness ==
    /\ pc = "done"
    /\ filter_path = <<"d", "/">>
    /\ NamesNoTree(root)
    /\ \E e \in EntriesOf(root) : e.path = <<"d">> /\ e.type = "tree"
    /\ result = EmptyDict

-----------------------------------------------------------------------------
\* C10 as claimed: the call returns only if the store has every object that
\* the commits and their trees refer to.
C10_AnyMissingFatal ==
    pc = "done" =>
        \A c \in CommitIds :
            /\ c \notin repo.lost
            /\ repo.tree[c] \in DOMAIN Objects
            /\ \A e \in EntriesOf(c) : e.oid \in DOMAIN Objects

\* C10, amended: the call raises, and returns no mapping, if the store lacks
\* an object that the walk looks up: the tree of a commit it flattens, a
\* subtree at or above the filter path in such a tree, or a parent of a
\* commit it processes with a non-empty held dict.  Stated for the steps that
\* do not raise: every object they looked up is in the store.
C10_LookedUpMissingFatal ==
    [][/\ pc' \in {"loop", "done"} =>
            /\ \A c \in DOMAIN commits' :
                 /\ c \notin repo.lost
                 /\ repo.tree[c] \in DOMAIN Objects
                 /\ \A g \in FlatOf(c).got : g.oid \in DOMAIN Objects
            /\ pc = "loop" =>
                 \A c \in Popped :
                    commits[c].held # EmptyDict => ParentSet(c) \cap repo.lost = {}
       /\ pc' = "error" => result' = EmptyDict
      ]_vars

\* The call raised on flattening a commit whose subtree at the filter path
\* 'd/e' the store lacks.
C10_Witness ==
    /\ pc = "error"
    /\ filter_path = <<"d", "/", "e">>
    /\ repo.lost = {}
    /\ \E c \in CommitIds :
         /\ reads[c] = 1
         /\ c \notin DOMAIN commits
         /\ repo.tree[c] = "R2"
         /\ c # root

-----------------------------------------------------------------------------
\* The tree has two entries of the same name, or an entry that is the tree
\* itself.
Malformed(tree_oid) ==
    /\ tree_oid \in DOMAIN Objects
    /\ Objects[tree_oid].type = "tree"
    /\ LET entries == Objects[tree_oid].entries
       IN  \/ \E i, j \in 1..Len(entries) : i # j /\ entries[i].name = entries[j].name
           \/ \E i \in 1..Len(entries) : entries[i].oid = tree_oid

\* The trees read on flattening commit c: its root tree and the subtrees
\* line 35 asked the store for.
TreesRead(c) == {repo.tree[c]} \cup {g.oid : g \in FlatOf(c).got}

\* C11 (MalformedTree fails fast): the call does not return when a tree read
\* during flattening has two entries of the same name or an entry referring
\* to the tree itself; no returned mapping is built from such a tree.
C11_MalformedFailsFast ==
    pc = "done" =>
        \A c \in DOMAIN commits : \A t \in TreesRead(c) : ~Malformed(t)

-----------------------------------------------------------------------------
\* The commits seen so far that hold the path.
Holders(path) == {c \in DOMAIN commits : DictHas(commits[c].held, path)}

\* Every path of the start commit's flat tree (the tree of line 64) is held
\* by exactly one commit or resolved exactly once, never both, and nothing
\* else is held or resolved.
Owned ==
    LET initial == DictKeys(commits[root].tree)
    IN  /\ \A path \in initial :
             Cardinality(Holders(path)) + Occurrences(resolved, path) = 1
        /\ \A c \in DOMAIN commits : DictKeys(commits[c].held) \subseteq initial
        /\ \A i \in 1..Len(resolved) : resolved[i].key \in initial

\* C14 (single ownership): whenever the loop is about to pop a commit, and
\* when the call has returned, every initial path is owned once (held by one
\* commit or resolved); and a step that processes commit c leaves nothing
\* held at c and moves each entry held at c into the held dict of exactly
\* one parent of c or appends it once to the resolved list.
C14_SingleOwnership ==
    [][pc' \in {"loop", "done"} =>
        /\ Owned'
        /\ pc = "loop" =>
             \A c \in Popped :
                /\ commits'[c].held = EmptyDict
                /\ \A i \in 1..Len(commits[c].held) :
                     LET path == commits[c].held[i].key
                         to == {p \in ParentSet(c) \cap DOMAIN commits' :
                                   DictHas(commits'[p].held, path)}
                     IN  Cardinality(to) + Occurrences(resolved', path) = 1
      ]_vars

\* The loop is about to pop a commit while the three paths of the start
\* commit are held by two of its ancestors.
C14_Witness ==
    /\ pc = "loop"
    /\ Len(commits[root].tree) = 3
    /\ commits[root].held = EmptyDict
    /\ \E c1, c2 \in DOMAIN commits :
         /\ c1 # c2
         /\ commits[c1].held # EmptyDict
         /\ commits[c2].held # EmptyDict

-----------------------------------------------------------------------------
\* C15 (termination): every call ends after finitely many steps: the loop
\* finds pending_commits empty and the call returns, or a step raises.
C15_Termination ==
    <>(\/ pc = "done" /\ pending_commits = {}
       \/ pc = "error")

\* A commit that was processed before, having resolved a path, is the one
\* pending commit again and holds another path.
C15_Witness ==
    /\ pc = "loop"
    /\ \E c \in CommitIds :
         /\ pending_commits = {c}
         /\ commits[c].held # EmptyDict
         /\ \E i \in 1..Len(resolved) : resolved[i].val.latest = c

-----------------------------------------------------------------------------
\* The items a step appended to the resolved list.
NewlyResolved == {resolved'[i] : i \in (Len(resolved) + 1)..Len(resolved')}

\* The items of commit c's held dict.
HeldAt(c) == {commits[c].held[i] : i \in 1..Len(commits[c].held)}

\* C16 (held entries carry their holder): every entry held at commit c has
\* latest = c; a step that processes c resolves exactly the paths held at c
\* that no parent of c has with the same content id (all of them when c has
\* no parents), each with latest = c; and the returned mapping has the
\* resolved values.
C16_HeldLatest ==
    [][pc' \in {"loop", "done"} =>
        /\ \A c \in DOMAIN commits' : \A i \in 1..Len(commits'[c].held) :
             commits'[c].held[i].val.latest = c
        /\ pc = "loop" =>
             \A c \in Popped :
                NewlyResolved =
                    {[key |-> e.key, val |-> [oid |-> e.val.oid, latest |-> c]] :
                        e \in {x \in HeldAt(c) :
                                  MatchingParents(c, x.key, x.val.oid) = <<>>}}
        /\ pc' = "done" =>
             \A i \in 1..Len(resolved) :
                DictGet(result', resolved[i].key) = resolved[i].val
      ]_vars

\* The call returned a path resolved at a commit without parents that is not
\* the start commit, and a path resolved at a commit none of whose parents
\* has it with the same content id.
C16_Witness ==
    /\ pc = "done"
    /\ \E i, j \in 1..Len(result) :
         /\ result[i].val.latest # root
         /\ repo.parents[result[i].val.latest] = <<>>
         /\ repo.parents[result[j].val.latest] # <<>>

-----------------------------------------------------------------------------
\* C17 (cache effectiveness): within one call _read_tree is called at most
\* once for each commit; a commit has a stored flat tree exactly when its
\* tree was read without an error, and the stored flat tree is the one a
\* read gives.
C17_ReadAtMostOnce ==
    /\ \A c \in CommitIds : reads[c] <= 1
    /\ \A c \in DOMAIN commits :
         /\ reads[c] = 1
         /\ Cached(c) = {[path |-> FlatOf(c).dict[i].key,
                          oid |-> FlatOf(c).dict[i].val.oid] :
                            i \in 1..Len(FlatOf(c).dict)}

\* Commit 1 is a parent of both other commits: the start commit scanned it
\* for a path that its first parent 2 lacks, commit 2 scanned it for a path
\* that came through 2, and its tree was read once.
C17_Witness ==
    /\ pc = "done"
    /\ repo.parents = << << >>, <<1>>, <<2, 1>> >>
    /\ reads[1] = 1
    /\ \E i, j \in 1..Len(result) :
         /\ result[i].val.latest = 1
         /\ Has(2, result[i].key, result[i].val.oid)
         /\ result[j].val.latest = 1
         /\ ~Has(2, result[j].key, result[j].val.oid)

-----------------------------------------------------------------------------
RECURSIVE Walk(_, _, _)
\* The end of the chain from commit c on, each commit followed by its first
\* parent, in declared order, that has the path with content id oid.
Walk(c, path, oid) ==
    LET mp == MatchingParents(c, path, oid)
    IN  IF mp = <<>> THEN c ELSE Walk(mp[1], path, oid)

\* The mapping computed by walking each path of the start commit on its own.
ReferenceMap ==
    {<<FlatOf(root).dict[i].key, FlatOf(root).dict[i].val.oid,
       Walk(root, FlatOf(root).dict[i].key, FlatOf(root).dict[i].val.oid)>> :
        i \in 1..Len(FlatOf(root).dict)}

\* C18 (reference walk): the returned mapping is the mapping computed by
\* walking each path of the start commit independently, from the start
\* commit along first matching parents to a commit no parent of which has
\* the path with the start commit's content id.
C18_ReferenceWalk ==
    pc = "done" =>
        /\ AsMap(result) = ReferenceMap
        /\ Len(result) = Cardinality(ReferenceMap)

\* A returned mapping with a path whose chain is the start commit and its
\* second parent (the first parent does not match), and a path whose chain
\* has two links.
C18_Witness ==
    /\ pc = "done"
    /\ Len(repo.parents[root]) = 2
    /\ \E i, j \in 1..Len(result) :
         /\ MatchingParents(root, result[i].key, result[i].val.oid)
                = <<repo.parents[root][2]>>
         /\ result[i].val.latest = repo.parents[root][2]
         /\ LET mp == MatchingParents(root, result[j].key, result[j].val.oid)
            IN  /\ mp # <<>>
                /\ result[j].val.latest \notin {root, mp[1]}

-----------------------------------------------------------------------------
\* C19 (no stranded entries): at the start of every iteration of the loop
\* every commit whose held dict is not empty is in pending_commits; and when
\* the call has returned every held dict is empty and every path of the
\* start commit's flat tree is in the resolved list.
C19_NoStrandedEntries ==
    /\ pc = "loop" =>
         \A c \in DOMAIN commits :
            commits[c].held # EmptyDict => c \in pending_commits
    /\ pc = "done" =>
         /\ \A c \in DOMAIN commits : commits[c].held = EmptyDict
         /\ {resolved[i].key : i \in 1..Len(resolved)} = DictKeys(commits[root].tree)

\* The loop is about to start an iteration in which a commit is pending
\* that holds a path that arrived after the commit had been processed, two
\* paths having been resolved at it then.
C19_Witness ==
    /\ pc = "loop"
    /\ \E c \in pending_commits :
         /\ commits[c].held # EmptyDict
         /\ Cardinality({i \in 1..Len(resolved) : resolved[i].val.latest = c}) = 2

-----------------------------------------------------------------------------
(* The GraphQL layer of kroftig/schema.py: node ids.  A resolver's outcome  *)
(* is [kind |-> "value", value |-> v] when it returned v and               *)
(* [kind |-> "error", error |-> e] when it raised e.                       *)

RECURSIVE SplitMax(_, _)
\* str.split('^', maxsplit)
SplitMax(s, maxsplit) ==
    LET at == {i \in 1..Len(s) : s[i] = "^"}
    IN  IF maxsplit = 0 \/ at = {} THEN <<s>>
        ELSE LET i == CHOOSE k \in at : \A m \in at : k <= m
             IN  <<SubSeq(s, 1, i - 1)>>
                 \o SplitMax(SubSeq(s, i + 1, Len(s)), maxsplit - 1)

\* str.split('^')
Split(s) == SplitMax(s, Len(s))

\* The names a RepoModel row may have (name is a free CharField) and a
\* request may ask for: 'r', 's' and 'r^s'.
RepoNames == {<<"r">>, <<"s">>, <<"r", "^", "s">>}

\* The git repository that every RepoModel row's path leads to.
WebRepo ==
    [parents |-> << << >>, <<1>>, <<2, 1>> >>,
     tree |-> <<"R1", "R2", "R1">>,
     lost |-> {}]

\* commit.hex: hexadecimal digits only
Hex(c) == <<"c", <<"1", "2", "3", "4", "5", "6", "7", "8", "9">>[c]>>

\* commit.message, of commit c of the repository registered as repo_name
Message(repo_name, c) == <<"m">> \o repo_name \o Hex(c)

\* git_repo.get(commit_id): the commit, or None
GitGet(commit_id) ==
    IF \E c \in CommitIds : Hex(c) = commit_id
    THEN [type |-> "commit", c |-> CHOOSE c \in CommitIds : Hex(c) = commit_id]
    ELSE None

\* get_repo_from_name: the RepoModel row, or None
get_repo_from_name(repo_name) ==
    IF repo_name \in registry THEN [type |-> "RepoModel", name |-> repo_name]
    ELSE None

\* cache_in_context(context, key, value)
cache_in_context(context_kroftig, key, value) ==
    IF context_kroftig.set
    THEN [context_kroftig EXCEPT !.items = DictSet(@, key, value)]
    ELSE [set |-> TRUE, items |-> <<[key |-> key, val |-> value]>>]

Value(v) == [kind |-> "value", value |-> v]
Error(e) == [kind |-> "error", error |-> e]

\* Commit.build_instance(id, commit), for a commit of the repository
\* registered as repo_name
build_instance(id, commit, repo_name) ==
    IF commit = None THEN None
    ELSE [type |-> "Commit", id |-> id, oid |-> Hex(commit.c),
          message |-> Message(repo_name, commit.c)]

\* The id the commit and commits resolvers give to a Commit node.
CommitNodeId(repo_name, c) == repo_name \o <<"^">> \o Hex(c)

\* The revs a request names: none, a commit's hex, or one that names nothing.
Revs == {<<>>, <<"z">>} \cup {Hex(c) : c \in DOMAIN WebRepo.parents}

\* git_repo.revparse_single(rev): the commit; KeyError is None here
revparse_single(rev) == GitGet(rev)

RECURSIVE Walk_topological(_)
\* git_repo.walk(last, GIT_SORT_TOPOLOGICAL) over the set cs of commits:
\* no parent before all its children are listed.
Walk_topological(cs) ==
    IF cs = {} THEN << >>
    ELSE LET c == CHOOSE x \in cs : \A y \in cs : y <= x
         IN  <<c>> \o Walk_topological(cs \ {c})

\* The ids a node request names: the ids of the Commit nodes of every name,
\* an id without '^', and one whose commit the repository lacks.
NodeIds ==
    {CommitNodeId(n, c) : n \in RepoNames, c \in DOMAIN WebRepo.parents}
    \cup {<<"r">>, <<"r", "^", "z">>}

\* The state before the first GraphQL operation, no resolve call running.
WebInit(names) ==
    /\ repo = WebRepo
    /\ root = Cardinality(DOMAIN WebRepo.parents)
    /\ filter_path = <<>>
    /\ commits = << >>
    /\ pending_commits = {}
    /\ resolved = << >>
    /\ result = EmptyDict
    /\ reads = [c \in DOMAIN WebRepo.parents |-> 0]
    /\ pc = "idle"
    /\ registry = names
    /\ user = AnonymousUser
    /\ kroftig = [set |-> FALSE, items |-> EmptyDict]
    /\ request = [op |-> "none"]
    /\ response = [kind |-> "none"]

gitvars == <<repo, root, filter_path, commits, pending_commits, resolved, result,
             reads, pc>>

\* Commit.resolve_repo_commit, lines 287-294
ResolveRepoCommit ==
    \E repo_name \in registry, rev \in Revs :
        /\ request' = [op |-> "repo_commit", name |-> repo_name, rev |-> rev]
        /\ response' =
             IF rev = <<>> THEN Value(None)
             ELSE LET commit == revparse_single(rev)
                  IN  IF commit = None THEN Error("KeyError")
                      ELSE Value(build_instance(CommitNodeId(repo_name, commit.c),
                                                commit, repo_name))
        /\ UNCHANGED <<registry, user, kroftig>>
        /\ UNCHANGED gitvars

\* CommitConnection.resolve_repo_commits, lines 313-328
ResolveRepoCommits ==
    \E repo_name \in registry, rev \in Revs :
        LET last == IF rev = <<>>
                    THEN [type |-> "commit", c |-> Cardinality(CommitIds)]
                    ELSE revparse_single(rev)
        IN  /\ request' = [op |-> "repo_commits", name |-> repo_name, rev |-> rev]
            /\ IF last = None
               THEN /\ response' = Error("KeyError")
                    /\ UNCHANGED kroftig
               ELSE /\ kroftig' = cache_in_context(kroftig, "rev", rev)
                    /\ response' =
                         LET walk == Walk_topological(AncestorsOrSelf(last.c))
                         IN  Value([i \in 1..Len(walk) |->
                                      build_instance(CommitNodeId(repo_name, walk[i]),
                                                     [type |-> "commit", c |-> walk[i]],
                                                     repo_name)])
            /\ UNCHANGED <<registry, user>>
            /\ UNCHANGED gitvars

\* Commit.get_node, lines 267-278
GetNode ==
    \E id \in NodeIds :
        LET parts == Split(id)
        IN  /\ request' = [op |-> "get_node", id |-> id]
            /\ IF Len(parts) # 2
               THEN \* the tuple assignment of line 272 raises ValueError
                    /\ response' = Error("ValueError")
                    /\ UNCHANGED kroftig
               ELSE LET repo_name == parts[1]
                        commit_id == parts[2]
                        row == get_repo_from_name(repo_name)
                    IN  IF row = None
                        THEN /\ response' = Value(None)
                             /\ UNCHANGED kroftig
                        ELSE /\ kroftig' = cache_in_context(kroftig, "repo", row)
                             /\ response' = Value(build_instance(id, GitGet(commit_id),
                                                                 repo_name))
            /\ UNCHANGED <<registry, user>>
            /\ UNCHANGED gitvars

InitNode == \E names \in SUBSET RepoNames : WebInit(names)

NextNode == ResolveRepoCommit \/ ResolveRepoCommits \/ GetNode

\* The commit and node resolvers, called in any order in one request
\* context, on any set of registered names.
SpecNode == InitNode /\ [][NextNode]_vars

-----------------------------------------------------------------------------
\* C12 (node id round trip): for every registered repository name and every
\* commit, Commit.get_node maps the id the commit and commits resolvers
\* give to the commit's node back to a node with the same id and message;
\* and for a name that is not registered it returns None.
C12_NodeRoundTrip ==
    request.op = "get_node" =>
        \A n \in RepoNames, c \in CommitIds :
            request.id = CommitNodeId(n, c) =>
                IF n \in registry
                THEN /\ response.kind = "value"
                     /\ response.value.type = "Commit"
                     /\ response.value.id = request.id
                     /\ response.value.message = Message(n, c)
                ELSE response = Value(None)

-----------------------------------------------------------------------------
(* AuthMiddleware of project/schema.py, and the LogIn and LogOut mutations *)
(* of kroftig/schema.py.  An outcome also records, as next, whether the    *)
(* middleware called the next resolver.                                    *)

\* The rows of the user table: password and is_active.
Users ==
    [u \in {"alice", "bob", "carol"} |->
        CASE u = "alice" -> [password |-> "pa", is_active |-> TRUE]
          [] u = "bob" -> [password |-> "pb", is_active |-> FALSE]
          [] u = "carol" -> [password |-> "pc", is_active |-> TRUE]]

\* The usernames and passwords a logIn request gives.
UserNames == {"alice", "bob", "carol", "mallory"}
Passwords == {"pa", "pb", "pc", "x"}

\* django.contrib.auth.authenticate: the user whose password this is, or
\* None.  (The default backend gives None for an inactive user as well; the
\* test of line 413 rejects that user in either case.)
authenticate(username, password) ==
    IF username \in DOMAIN Users /\ Users[username].password = password
    THEN [type |-> "User", username |-> username,
          is_active |-> Users[username].is_active]
    ELSE None

\* project.settings.DEBUG, off
DEBUG == FALSE

VALID_UNAUTHENTICATED_FIELDS ==
    {<<"logIn", "Mutation">>, <<"logOut", "Mutation">>, <<"success", "LogOutPayload">>}

\* The (info.field_name, info.parent_type.name) pairs of the schema's other
\* fields that a request resolves.
OtherFields ==
    {<<"success", "LogOutPayload">>, <<"clientMutationId", "LogOutPayload">>,
     <<"user", "LogInPayload">>, <<"node", "Query">>, <<"repo", "Query">>,
     <<"repos", "Query">>, <<"user", "Query">>, <<"users", "Query">>,
     <<"commits", "Repo">>, <<"latestCommit", "TreeEntry">>}

\* user.is_authenticated holding for every user.
IsAuthenticatedAlways(u) == TRUE

\* user.is_authenticated: true of every user but AnonymousUser
is_authenticated(u) == u # AnonymousUser

\* Lines 54-59: the middleware calls the next resolver.
Allowed(field, meta) ==
    \/ is_authenticated(user)
    \/ field \in VALID_UNAUTHENTICATED_FIELDS
    \/ DEBUG /\ meta

Denied == [kind |-> "error", error |-> "access denied, please log in", next |-> FALSE]

\* AuthMiddleware.resolve for a field other than logIn and logOut, whose
\* resolver leaves the session alone.
ResolveField ==
    \E field \in OtherFields, meta \in BOOLEAN :
        /\ request' = [op |-> "resolve", field |-> field, meta |-> meta]
        /\ response' = IF Allowed(field, meta)
                       THEN [kind |-> "value", value |-> "resolved", next |-> TRUE]
                       ELSE Denied
        /\ UNCHANGED <<registry, user, kroftig>>
        /\ UNCHANGED gitvars

\* AuthMiddleware.resolve for Mutation.logIn, and LogIn.mutate_and_get_payload
LogIn ==
    \E username \in UserNames, password \in Passwords, meta \in BOOLEAN :
        LET field == <<"logIn", "Mutation">>
            u == authenticate(username, password)
        IN  /\ request' = [op |-> "resolve", field |-> field, meta |-> meta,
                           username |-> username, password |-> password]
            /\ IF ~Allowed(field, meta)
               THEN response' = Denied /\ UNCHANGED user
               ELSE IF u = None \/ ~u.is_active
               THEN /\ response' = [kind |-> "error", error |-> "invalid login",
                                    next |-> TRUE]
                    /\ UNCHANGED user
               ELSE \* login(info.context, user)
                    /\ user' = u.username
                    /\ response' = [kind |-> "value", value |-> u.username,
                                    next |-> TRUE]
            /\ UNCHANGED <<registry, kroftig>>
            /\ UNCHANGED gitvars

\* AuthMiddleware.resolve for Mutation.logOut, and LogOut.mutate_and_get_payload
LogOut ==
    \E meta \in BOOLEAN :
        LET field == <<"logOut", "Mutation">>
        IN  /\ request' = [op |-> "resolve", field |-> field, meta |-> meta]
            /\ IF ~Allowed(field, meta)
               THEN response' = Denied /\ UNCHANGED user
               ELSE \* logout(info.context)
                    /\ user' = AnonymousUser
                    /\ response' = [kind |-> "value", value |-> "success",
                                    next |-> TRUE]
            /\ UNCHANGED <<registry, kroftig>>
            /\ UNCHANGED gitvars

InitAuth == WebInit({})

NextAuth == ResolveField \/ LogIn \/ LogOut

\* Any sequence of field resolutions, logIn and logOut on one session.
SpecAuth == InitAuth /\ [][NextAuth]_vars

-----------------------------------------------------------------------------
\* The logIn request names a user with that user's password who is active.
GoodLogin(r) ==
    /\ r.username \in DOMAIN Users
    /\ Users[r.username].password = r.password
    /\ Users[r.username].is_active

\* C13 (access control, DEBUG off): a field outside
\* VALID_UNAUTHENTICATED_FIELDS is handed to its resolver only when the
\* session user is authenticated, and for an unauthenticated session the
\* middleware raises 'access denied, please log in' without calling the
\* resolver; a logIn with wrong credentials or for an inactive user raises
\* 'invalid login' and leaves the session's user as it was; logOut leaves
\* the session unauthenticated; and an unauthenticated session becomes
\* authenticated by a logIn with good credentials only.
C13_AccessControl ==
    [][request'.op = "resolve" =>
        LET field == request'.field
        IN  /\ field \notin VALID_UNAUTHENTICATED_FIELDS =>
                 IF user # AnonymousUser
                 THEN response'.next
                 ELSE response' = Denied /\ user' = AnonymousUser
            /\ (field = <<"logIn", "Mutation">> /\ ~GoodLogin(request')) =>
                 /\ response'.kind = "error"
                 /\ response'.error = "invalid login"
                 /\ user' = user
            /\ field = <<"logOut", "Mutation">> => user' = AnonymousUser
            /\ (user = AnonymousUser /\ user' # AnonymousUser) =>
                 /\ field = <<"logIn", "Mutation">>
                 /\ GoodLogin(request')
                 /\ user' = request'.username
      ]_vars

\* With the debug header set, an unauthenticated session asked for
\* Query.repo and was denied.
C13_Witness ==
    /\ user = AnonymousUser
    /\ request.op = "resolve"
    /\ request.field = <<"repo", "Query">>
    /\ request.meta
    /\ response = Denied

-----------------------------------------------------------------------------
(* The request-context cache of latest commits: TreeEntry.resolve_latest_   *)
(* commit of kroftig/schema.py, in one request context.                    *)

\* The paths of the tree entries a request resolves.
EntryPaths ==
    {<<"f">>, <<"d">>, <<"d", "d">>, <<"d", "/", "f">>, <<"d", "/", "e">>}

\* The id of the TreeEntry node of a path in commit c (line 196).
TreeEntryId(repo_name, c, path) ==
    repo_name \o <<"^">> \o Hex(c) \o <<"^">> \o path

\* The ids of the entries a request resolves.
EntryIds == {TreeEntryId(<<"r">>, c, path) : c \in DOMAIN WebRepo.parents,
                                              path \in EntryPaths}

\* get_from_context_cache(context, key): AttributeError without a kroftig
\* attribute, KeyError without the key
get_from_context_cache(context_kroftig, key) ==
    IF ~context_kroftig.set THEN Error("AttributeError")
    ELSE IF ~DictHas(context_kroftig.items, key) THEN Error("KeyError")
    ELSE Value(DictGet(context_kroftig.items, key))

\* Repo.resolve_query_repo, lines 370-375
ResolveQueryRepo ==
    /\ pc = "idle"
    /\ \E name \in RepoNames :
        LET row == get_repo_from_name(name)
        IN  /\ request' = [op |-> "query_repo", name |-> name]
            /\ kroftig' = cache_in_context(kroftig, "repo", row)
            /\ response' = Value(row)
            /\ UNCHANGED <<registry, user>>
            /\ UNCHANGED gitvars

\* Lines 154-158: the entry's latest commit out of latests, as a Commit
\* node; None on the KeyError of a path that latests lacks and on the
\* AttributeError of repo.name when the cached repo is None.
LatestOutOf(latests, path, cached_repo) ==
    IF DictHas(latests, path) /\ cached_repo # None
    THEN build_instance(CommitNodeId(cached_repo.name, DictGet(latests, path).latest),
                        [type |-> "commit", c |-> DictGet(latests, path).latest],
                        cached_repo.name)
    ELSE None

\* TreeEntry.resolve_latest_commit, lines 135-153, up to the call of
\* get_latest_changing_commits_for_tree, which Start, ProcessCommit and
\* Return then run; and the whole of it when the call is not made.
BeginLatestCommit ==
    /\ pc = "idle"
    /\ \E id \in EntryIds :
        LET parts == SplitMax(id, 2)
            commit_id == parts[2]
            path == parts[3]
            cached_repo == get_from_context_cache(kroftig, "repo")
            cached == get_from_context_cache(kroftig, "latests")
            commit == GitGet(commit_id)
        IN  /\ request' = [op |-> "latest_commit", id |-> id]
            /\ UNCHANGED <<registry, user, kroftig, repo>>
            /\ IF cached_repo.kind = "error"
               THEN /\ response' = cached_repo
                    /\ UNCHANGED <<root, filter_path, commits, pending_commits,
                                   resolved, result, reads, pc>>
               ELSE IF cached.kind = "value"
               THEN /\ response' = Value(LatestOutOf(cached.value, path,
                                                     cached_repo.value))
                    /\ UNCHANGED <<root, filter_path, commits, pending_commits,
                                   resolved, result, reads, pc>>
               ELSE IF cached_repo.value = None \/ commit = None
               THEN \* repo.git_repo, or root.tree, of None
                    /\ response' = Error("AttributeError")
                    /\ UNCHANGED <<root, filter_path, commits, pending_commits,
                                   resolved, result, reads, pc>>
               ELSE /\ response' = [kind |-> "calling"]
                    /\ root' = commit.c
                    /\ filter_path' = DirName(path)
                    /\ commits' = << >>
                    /\ pending_commits' = {}
                    /\ resolved' = << >>
                    /\ result' = EmptyDict
                    /\ reads' = [c \in CommitIds |-> 0]
                    /\ pc' = "start"

\* TreeEntry.resolve_latest_commit, lines 151-158, from the return of the
\* call on.
FinishLatestCommit ==
    /\ pc \in {"done", "error"}
    /\ response.kind = "calling"
    /\ LET path == SplitMax(request.id, 2)[3]
           cached_repo == get_from_context_cache(kroftig, "repo").value
       IN  IF pc = "error"
           THEN response' = Error("TypeError") /\ UNCHANGED kroftig
           ELSE /\ kroftig' = cache_in_context(kroftig, "latests", result)
                /\ response' = Value(LatestOutOf(result, path, cached_repo))
    /\ pc' = "idle"
    /\ UNCHANGED <<registry, user, request>>
    /\ UNCHANGED <<repo, root, filter_path, commits, pending_commits, resolved,
                   result, reads>>

InitContext == WebInit({<<"r">>})

NextContext ==
    \/ ResolveQueryRepo
    \/ BeginLatestCommit
    \/ Start
    \/ ProcessCommit
    \/ Return
    \/ FinishLatestCommit

\* The resolvers of one request: any sequence of them shares one context.
SpecContext == InitContext /\ [][NextContext]_vars

-----------------------------------------------------------------------------
\* Commit c's flat tree under the filter path dir has the path with oid.
HasUnder(c, dir, path, oid) ==
    LET rt == _read_tree(repo.tree[c], dir)
    IN  /\ ~rt.err
        /\ DictHas(rt.dict, path)
        /\ DictGet(rt.dict, path).oid = oid

RECURSIVE WalkUnder(_, _, _, _)
\* The reference walk (C18) from commit c for the path, under the filter
\* path dir.
WalkUnder(c, dir, path, oid) ==
    LET mp == SelectSeq(repo.parents[c], LAMBDA p : HasUnder(p, dir, path, oid))
    IN  IF mp = <<>> THEN c ELSE WalkUnder(mp[1], dir, path, oid)

\* What get_latest_changing_commits_for_tree reports for the entry's own
\* commit and parent directory at the entry's path, as a Commit node; None
\* when it reports nothing for the path.
OwnLatest(id, repo_name) ==
    LET parts == SplitMax(id, 2)
        c == GitGet(parts[2]).c
        path == parts[3]
        flat == _read_tree(repo.tree[c], DirName(path)).dict
    IN  IF DictHas(flat, path)
        THEN LET latest == WalkUnder(c, DirName(path), path, DictGet(flat, path).oid)
             IN  build_instance(CommitNodeId(repo_name, latest),
                                [type |-> "commit", c |-> latest], repo_name)
        ELSE None

\* C20 (request-context cache of latest commits): whatever entries were
\* resolved earlier in the same context, a resolve_latest_commit call that
\* returns gives the commit that get_latest_changing_commits_for_tree
\* reports for the entry's own commit and own parent directory at the
\* entry's path.
C20_OwnLatestCommit ==
    LET cached_repo == get_from_context_cache(kroftig, "repo")
    IN  (/\ request.op = "latest_commit"
         /\ response.kind = "value"
         /\ cached_repo.kind = "value"
         /\ cached_repo.value # None) =>
            response.value = OwnLatest(request.id, cached_repo.value.name)

====
